---------------------------- MODULE Spec2Model ----------------------------
(* Model of src/src/shiqi_grafana_chart_mcp/__init__.py: four MCP tools     *)
(* (list_prometheus_metrics, generate_promql_prompt, explain_promql_prompt, *)
(* create_grafana_panel) run as coroutines that suspend only at their one   *)
(* awaited HTTP call.                                                       *)
(*                                                                          *)
(* Text is a sequence of string tokens: user-supplied text is cut into the  *)
(* pieces that matter (characters for titles, so that ' ' can be replaced;  *)
(* "\n" as its own token, so that lines can be counted) and every literal   *)
(* of the source is one token.  The Chinese literals of the source are      *)
(* written in English; each is named after the line that holds it.          *)
EXTENDS Integers, Sequences, FiniteSets, TLC

(***************************************************************************)
(* Bounds of the model.                                                    *)
(***************************************************************************)
\* Number of invocation slots (coroutines that can be in flight at once).
MaxInv == 2
\* Number of seconds the wall clock can move away from its first reading.
MaxTicks == 1

Inv == 1..MaxInv

(***************************************************************************)
(* State.                                                                  *)
(***************************************************************************)
VARIABLES
    config,      \* PROMETHEUS_URL, GRAFANA_URL, GRAFANA_API (lines 7-9)
    clock,       \* local wall clock, in seconds (datetime.datetime.now())
    pc,          \* per invocation: "idle", "awaiting", "returned", "raised"
    op,          \* per invocation: the tool called
    args,        \* per invocation: its arguments
    locals,      \* per invocation: the locals kept across the await
    requests,    \* per invocation: the HTTP requests it has issued, in order
    resp,        \* per invocation: the response its await returned
    result,      \* per invocation: the envelope it returned
    fault,       \* per invocation: the exception that left the tool function
    clients,     \* invocations inside their `async with httpx.AsyncClient()`
    clockReads   \* per invocation: how many times it has read the clock

vars == <<config, clock, pc, op, args, locals, requests, resp, result, fault,
          clients, clockReads>>

(***************************************************************************)
(* Python values.                                                          *)
(***************************************************************************)
None == [t |-> "none"]
PyStr(s) == [t |-> "str", s |-> s]
PyList(items) == [t |-> "list", items |-> items]
\* A dict keeps insertion order: a sequence of <<key, value>> pairs.
PyDict(pairs) == [t |-> "dict", pairs |-> pairs]
\* What resp.json() cannot parse.
Invalid == [t |-> "invalid"]

RECURSIVE Join(_, _)
\* sep.join(parts): str.join of lines 44 (and of the reprs of list and dict).
Join(sep, parts) ==
    IF parts = <<>> THEN <<>>
    ELSE IF Len(parts) = 1 THEN Head(parts)
    ELSE Head(parts) \o sep \o Join(sep, Tail(parts))

\* str.replace(old, new) for a one-character old, line 119.
Replace(s, old, new) ==
    [k \in 1..Len(s) |-> IF s[k] = old THEN new ELSE s[k]]

Digit(n) == <<"0", "1", "2", "3", "4", "5", "6", "7", "8", "9">>[n + 1]

RECURSIVE Decimal(_)
\* An int formatted by an f-string: {len(metrics)} of line 28.
Decimal(n) == IF n < 10 THEN <<Digit(n)>> ELSE Decimal(n \div 10) \o <<Digit(n % 10)>>

\* A zero-padded two-digit field of strftime (%H, %M, %S).
TwoDigits(n) == <<Digit((n \div 10) % 10), Digit(n % 10)>>

\* Truth value of a Python value, as `if x` and `a and b` test it.
Truthy(v) ==
    CASE v.t = "none" -> FALSE
      [] v.t = "str"  -> v.s # <<>>
      [] v.t = "list" -> v.items # <<>>
      [] v.t = "dict" -> v.pairs # <<>>
      [] OTHER        -> TRUE

RECURSIVE Repr(_)
\* repr() of a parsed JSON value, which is what str(dict) and an f-string
\* show of a dict or a list (lines 28, 31, 128).
Repr(v) ==
    CASE v.t = "none" -> <<"None">>
      [] v.t = "str"  -> <<"'">> \o v.s \o <<"'">>
      [] v.t = "list" ->
            <<"[">> \o Join(<<", ">>, [k \in 1..Len(v.items) |-> Repr(v.items[k])])
                    \o <<"]">>
      [] v.t = "dict" ->
            <<"{">> \o Join(<<", ">>,
                            [k \in 1..Len(v.pairs) |->
                                Repr(PyStr(<<v.pairs[k][1]>>)) \o <<": ">>
                                    \o Repr(v.pairs[k][2])])
                    \o <<"}">>

\* An f-string's {x}: str(x), which is the text itself for a str.
Format(v) == IF v.t = "str" THEN v.s ELSE Repr(v)

HasKey(d, key) == \E k \in 1..Len(d.pairs) : d.pairs[k][1] = key

\* dict.get(key, default).
Get(d, key, default) ==
    IF HasKey(d, key)
    THEN d.pairs[CHOOSE k \in 1..Len(d.pairs) : d.pairs[k][1] = key][2]
    ELSE default

\* seq[:n]
Prefix(s, n) == SubSeq(s, 1, IF Len(s) < n THEN Len(s) ELSE n)


(***************************************************************************)
(* Module configuration, lines 7-9: os.environ.get gives None for a        *)
(* variable that is not set.                                               *)
(***************************************************************************)
ConfigSet ==
    { [PROMETHEUS_URL |-> PyStr(<<"http://prom">>),
       GRAFANA_URL    |-> PyStr(<<"http://graf">>),
       GRAFANA_API    |-> PyStr(<<"token">>)],
      [PROMETHEUS_URL |-> None, GRAFANA_URL |-> None, GRAFANA_API |-> None] }

(***************************************************************************)
(* list_prometheus_metrics, lines 14-33.                                   *)
(***************************************************************************)
\* Line 18.
MetricsUrl(cfg) == Format(cfg.PROMETHEUS_URL) \o <<"/api/v1/label/__name__/values">>

\* The request of line 20.
ListRequest(cfg) == [method |-> "GET", url |-> MetricsUrl(cfg)]

\* Line 33: the except branch; `cause` is str(e).
ListFailure(cause) ==
    [status |-> "error", message |-> <<"metric enumeration failed: ">> \o cause]

\* str(e) of the exceptions the try block of a tool can raise.
JSONDecodeErrorText == <<"Expecting value: line 1 column 1 (char 0)">>
NoGetText(v) ==
    <<"'", IF v.t = "none" THEN "NoneType" ELSE v.t, "' object has no attribute 'get'">>
NoLenText == <<"object of type 'NoneType' has no len()">>

\* ListResult without the [:5] of line 28: the message shows every metric.
ListResult_ShowsAll(r) ==
    LET data == r.body IN
    IF data.t = "invalid" THEN ListFailure(JSONDecodeErrorText)
    ELSE IF data.t # "dict" THEN ListFailure(NoGetText(data))
    ELSE IF Get(data, "status", None) = PyStr(<<"success">>)
    THEN LET metrics == Get(data, "data", PyList(<<>>)) IN
         CASE metrics.t = "none" -> ListFailure(NoLenText)
           [] metrics.t = "list" ->
                [status  |-> "ok",
                 metrics |-> metrics,
                 message |-> <<"Prometheus currently has ">>
                             \o Decimal(Len(metrics.items))
                             \o <<" available metrics, e.g.: ">>
                             \o Repr(metrics)
                             \o <<"...">>]
    ELSE [status |-> "error", message |-> Format(data)]

\* ListResult with the else branch of line 31 raising into the except of
\* line 33 instead of returning the body.
ListResult_AlwaysPrefix(r) ==
    LET data == r.body IN
    IF data.t = "invalid" THEN ListFailure(JSONDecodeErrorText)
    ELSE IF data.t # "dict" THEN ListFailure(NoGetText(data))
    ELSE IF Get(data, "status", None) = PyStr(<<"success">>)
    THEN LET metrics == Get(data, "data", PyList(<<>>)) IN
         CASE metrics.t = "none" -> ListFailure(NoLenText)
           [] metrics.t = "list" ->
                [status  |-> "ok",
                 metrics |-> metrics,
                 message |-> <<"Prometheus currently has ">>
                             \o Decimal(Len(metrics.items))
                             \o <<" available metrics, e.g.: ">>
                             \o Repr(PyList(Prefix(metrics.items, 5)))
                             \o <<"...">>]
    ELSE ListFailure(Format(data))

\* Lines 21-33: the result built from the response the GET returned.
ListResult(r) ==
    LET data == r.body IN
    IF data.t = "invalid" THEN ListFailure(JSONDecodeErrorText)
    ELSE IF data.t # "dict" THEN ListFailure(NoGetText(data))
    ELSE IF Get(data, "status", None) = PyStr(<<"success">>)
    THEN LET metrics == Get(data, "data", PyList(<<>>)) IN
         CASE metrics.t = "none" -> ListFailure(NoLenText)
           [] metrics.t = "list" ->
                [status  |-> "ok",
                 metrics |-> metrics,
                 message |-> <<"Prometheus currently has ">>
                             \o Decimal(Len(metrics.items))
                             \o <<" available metrics, e.g.: ">>
                             \o Repr(PyList(Prefix(metrics.items, 5)))
                             \o <<"...">>]
    ELSE [status |-> "error", message |-> Format(data)]

(***************************************************************************)
(* generate_promql_prompt, lines 36-57.                                    *)
(***************************************************************************)
NoMetricsPlaceholder ==
    <<"(no metrics available, query the Prometheus metric list first)">>
UserRequestLabel == <<"User request: ">>
MetricsHeading == <<"All metric names available in Prometheus, one per line:">>
ExtraContextLabel == <<"Other context: ">>
PromptInstruction ==
    <<"Using the request and the metrics above, generate the PromQL query that fits a Grafana panel best.",
      "\n",
      "Return only the query, no explanation.">>

\* Line 44 testing `is not None` instead of truth: an empty list is joined.
MetricsStr_NoneOnly(available_metrics) ==
    IF available_metrics # None
    THEN Join(<<"\n">>,
              [k \in 1..Len(available_metrics.items) |-> available_metrics.items[k].s])
    ELSE NoMetricsPlaceholder

\* Line 44.
MetricsStr(available_metrics) ==
    IF Truthy(available_metrics)
    THEN Join(<<"\n">>,
              [k \in 1..Len(available_metrics.items) |-> available_metrics.items[k].s])
    ELSE NoMetricsPlaceholder

\* Line 49: the text before the line's "\n".
ExtraContextLine(extra_context) ==
    IF extra_context # <<>> THEN ExtraContextLabel \o extra_context ELSE <<>>

\* Lines 45-52.
GeneratePrompt(user_intent, available_metrics, extra_context) ==
    UserRequestLabel \o user_intent \o <<"\n">>
    \o MetricsHeading \o <<"\n">>
    \o MetricsStr(available_metrics) \o <<"\n">>
    \o ExtraContextLine(extra_context) \o <<"\n">>
    \o PromptInstruction

\* Lines 53-57 with the time of the call written into the prompt.
GenerateResult_Stamped(user_intent, available_metrics, extra_context) ==
    [status      |-> "ok",
     prompt      |-> GeneratePrompt(user_intent, available_metrics, extra_context)
                     \o <<"\n">> \o TwoDigits(clock % 60),
     instruction |-> <<"Give this prompt to the model to generate PromQL for a Grafana panel">>]

\* Lines 53-57.
GenerateResult(user_intent, available_metrics, extra_context) ==
    [status      |-> "ok",
     prompt      |-> GeneratePrompt(user_intent, available_metrics, extra_context),
     instruction |-> <<"Give this prompt to the model to generate PromQL for a Grafana panel">>]

(***************************************************************************)
(* explain_promql_prompt, lines 60-77.                                     *)
(***************************************************************************)
\* The default of explanation_request, line 61.
DefaultExplanationRequest ==
    <<"Explain this PromQL query step by step, in Chinese">>

\* Lines 69-77.
ExplainResult(promql_query, explanation_request) ==
    [status      |-> "ok",
     prompt      |-> <<"The PromQL query to explain is:">> \o <<"\n">>
                     \o promql_query \o <<"\n", "\n">> \o explanation_request,
     instruction |-> <<"Give this prompt to the model for a detailed explanation of the query">>]

(***************************************************************************)
(* create_grafana_panel, lines 80-130.                                     *)
(***************************************************************************)
\* Line 84.
Headers(cfg) ==
    [Authorization |-> <<"Bearer ">> \o Format(cfg.GRAFANA_API),
     ContentType   |-> <<"application/json">>]

\* Line 85 with the format '%Y%m%d%H%M00': minutes are the finest field.
Strftime_NoSeconds(t) ==
    <<"2", "0", "2", "5", "0", "1", "0", "1">>
    \o TwoDigits(t \div 3600) \o TwoDigits((t % 3600) \div 60) \o <<"0", "0">>

\* Line 85: strftime('%Y%m%d%H%M%S') of a local time `t` seconds after
\* midnight of 1 January 2025.
Strftime(t) ==
    <<"2", "0", "2", "5", "0", "1", "0", "1">>
    \o TwoDigits(t \div 3600) \o TwoDigits((t % 3600) \div 60) \o TwoDigits(t % 60)

\* Line 86.
DashboardTitle(title, now_str) == title \o <<"_">> \o now_str

\* Lines 88-107.
Dashboard(title, promql, panel_type, dashboard_title) ==
    [id |-> None, uid |-> None, title |-> dashboard_title, tags |-> <<>>,
     timezone |-> "browser", schemaVersion |-> 17, version |-> 0, refresh |-> "5s",
     panels |-> << [id |-> 1, type |-> panel_type, title |-> title,
                    datasource |-> [type |-> "prometheus"],
                    targets |-> << [expr |-> promql, refId |-> "A"] >>,
                    gridPos |-> [x |-> 0, y |-> 0, w |-> 12, h |-> 6]] >>]

\* Lines 108-112.
Payload(title, promql, panel_type, dashboard_title) ==
    [dashboard |-> Dashboard(title, promql, panel_type, dashboard_title),
     overwrite |-> FALSE,
     message   |-> <<"Created by MCP tool: ">> \o dashboard_title]

\* The request of line 114.
CreateRequest(cfg, payload) ==
    [method  |-> "POST",
     url     |-> Format(cfg.GRAFANA_URL) \o <<"/api/dashboards/db">>,
     headers |-> Headers(cfg),
     json    |-> payload]

\* Line 119.
Link(cfg, uid, dashboard_title) ==
    Format(cfg.GRAFANA_URL) \o <<"/d/">> \o Format(uid) \o <<"/">>
    \o Replace(dashboard_title, " ", "-")

\* Lines 120-125.
SuccessMessage(dashboard_title, link) ==
    <<"Created the Grafana dashboard **">> \o dashboard_title \o <<"**!", "\n", "\n">>
    \o <<"[Open the dashboard](">> \o link \o <<")", "\n", "\n">>
    \o <<"You can go on customising panels and alerts in Grafana.", "\n", "\n">>
    \o <<"To add metrics or create more, reply with the request.">>

\* Lines 115-130 with line 117 testing the status code alone.
CreateResult_IgnoresUid(cfg, r, dashboard_title) ==
    LET res == r.body IN
    IF res.t = "invalid"
    THEN [status |-> "error",
          message |-> <<"failed to parse response: ">> \o JSONDecodeErrorText]
    ELSE IF r.status_code = 200 /\ res.t # "dict"
    THEN [status |-> "error",
          message |-> <<"failed to parse response: ">> \o NoGetText(res)]
    ELSE IF r.status_code = 200
    THEN LET link == Link(cfg, Get(res, "uid", None), dashboard_title) IN
         [status  |-> "ok",
          message |-> SuccessMessage(dashboard_title, link),
          url     |-> link]
    ELSE [status |-> "error",
          message |-> <<"creation failed, response: ">> \o Format(res)]

\* Lines 115-130: the result built from the response the POST returned.
CreateResult(cfg, r, dashboard_title) ==
    LET res == r.body IN
    IF res.t = "invalid"
    THEN [status |-> "error",
          message |-> <<"failed to parse response: ">> \o JSONDecodeErrorText]
    ELSE IF r.status_code = 200 /\ res.t # "dict"
    THEN [status |-> "error",
          message |-> <<"failed to parse response: ">> \o NoGetText(res)]
    ELSE IF r.status_code = 200 /\ Truthy(Get(res, "uid", None))
    THEN LET link == Link(cfg, Get(res, "uid", None), dashboard_title) IN
         [status  |-> "ok",
          message |-> SuccessMessage(dashboard_title, link),
          url     |-> link]
    ELSE [status |-> "error",
          message |-> <<"creation failed, response: ">> \o Format(res)]

(***************************************************************************)
(* Inputs: the arguments callers pass and the replies the backends give.  *)
(***************************************************************************)
\* Arguments of create_grafana_panel; "timeseries" is the default of
\* panel_type, line 80.
Titles == { <<"C", "P", "U">>, <<"C", " ", "P">>, <<"a", " ", "b", " ", "c">> }
Promqls == { <<"up">>, <<"rate(http_requests_total[5m])">> }
PanelTypes == { <<"timeseries">>, <<"stat">> }

\* Arguments of generate_promql_prompt.  None is the default of
\* available_metrics and "" the default of extra_context, line 36; the last
\* extra_context has two lines.
UserIntents == { <<"cpu usage">>, <<"memory", " ", "free">> }
MetricLists ==
    { None, PyList(<<>>), PyList(<<PyStr(<<"up">>)>>),
      PyList(<<PyStr(<<"up">>), PyStr(<<"cpu_usage">>)>>) }
ExtraContexts == { <<>>, <<"job=api">>, <<"job=api", "\n", "env=prod">> }

\* Arguments of explain_promql_prompt.
ExplanationRequests == { DefaultExplanationRequest, <<"Explain briefly">> }

\* n metric names.
Names(n) == [k \in 1..n |-> PyStr(<<"m", Digit(k)>>)]

\* Bodies the metrics backend can reply with.
MetricsBodies ==
    { Invalid,
      PyList(<<>>),
      PyDict(<<>>),
      PyDict(<< <<"status", PyStr(<<"error">>)>>, <<"error", PyStr(<<"bad request">>)>> >>),
      PyDict(<< <<"status", PyStr(<<"success">>)>> >>),
      PyDict(<< <<"status", PyStr(<<"success">>)>>, <<"data", None>> >>),
      PyDict(<< <<"status", PyStr(<<"success">>)>>, <<"data", PyList(<<>>)>> >>),
      PyDict(<< <<"status", PyStr(<<"success">>)>>, <<"data", PyList(Names(3))>> >>),
      PyDict(<< <<"status", PyStr(<<"success">>)>>, <<"data", PyList(Names(6))>> >>) }

MetricsResponses == [status_code : {200, 400}, body : MetricsBodies]

\* Bodies the dashboard backend can reply with.
DashboardBodies ==
    { Invalid,
      PyList(<<>>),
      PyDict(<< <<"message", PyStr(<<"Unauthorized">>)>> >>),
      PyDict(<< <<"uid", None>> >>),
      PyDict(<< <<"uid", PyStr(<<>>)>> >>),
      PyDict(<< <<"uid", PyStr(<<"abc123">>)>>, <<"status", PyStr(<<"success">>)>> >>) }

DashboardResponses == [status_code : {200, 500}, body : DashboardBodies]

\* The inputs of the runs with several invocations in flight: fewer of each,
\* one per branch of the code.
FewTitles == { <<"C", "P", "U">>, <<"C", " ", "P">> }
FewMetricLists == { None, PyList(<<PyStr(<<"up">>), PyStr(<<"cpu_usage">>)>>) }
FewExtraContexts == { <<>>, <<"job=api">> }
FewMetricsResponses ==
    { [status_code |-> 200, body |-> Invalid],
      [status_code |-> 200,
       body |-> PyDict(<< <<"status", PyStr(<<"error">>)>>,
                          <<"error", PyStr(<<"bad request">>)>> >>)],
      [status_code |-> 200,
       body |-> PyDict(<< <<"status", PyStr(<<"success">>)>>,
                          <<"data", PyList(Names(3))>> >>)] }
FewDashboardResponses ==
    { [status_code |-> 200, body |-> Invalid],
      [status_code |-> 500,
       body |-> PyDict(<< <<"message", PyStr(<<"Unauthorized">>)>> >>)],
      [status_code |-> 200,
       body |-> PyDict(<< <<"uid", PyStr(<<"abc123">>)>>,
                          <<"status", PyStr(<<"success">>)>> >>)] }

\* str(e) of what httpx raises from client.get / client.post.
ConnectErrorText == <<"All connection attempts failed">>
UnsupportedProtocolText ==
    <<"Request URL is missing an 'http://' or 'https://' protocol.">>

\* The exception the awaited call raises: a URL built from an unset base URL
\* ("None/api/...") is refused by httpx before anything is sent.
RequestError(base_url) ==
    IF base_url = None THEN UnsupportedProtocolText ELSE ConnectErrorText

\* The seconds the clock shows during a run: 00:00:58 and the ones after it.
ClockWindow == 58..(58 + MaxTicks)

Init ==
    /\ config \in ConfigSet
    /\ clock = 58
    /\ pc = [i \in Inv |-> "idle"]
    /\ op = [i \in Inv |-> "none"]
    /\ args = [i \in Inv |-> None]
    /\ locals = [i \in Inv |-> None]
    /\ requests = [i \in Inv |-> <<>>]
    /\ resp = [i \in Inv |-> None]
    /\ result = [i \in Inv |-> None]
    /\ fault = [i \in Inv |-> None]
    /\ clients = {}
    /\ clockReads = [i \in Inv |-> 0]

(***************************************************************************)
(* list_prometheus_metrics.                                                *)
(***************************************************************************)
\* Lines 18-20, up to the await: the client is opened and the GET is issued.
CallList(i) ==
    /\ pc[i] = "idle"
    /\ op' = [op EXCEPT ![i] = "list"]
    /\ requests' = [requests EXCEPT ![i] = Append(@, ListRequest(config))]
    /\ clients' = clients \cup {i}
    /\ pc' = [pc EXCEPT ![i] = "awaiting"]
    /\ UNCHANGED <<config, clock, args, locals, resp, result, fault, clockReads>>

\* ListRespond with one more attempt after a reply that gives an error.
ListRespond_Retrying(i, r) ==
    /\ pc[i] = "awaiting" /\ op[i] = "list"
    /\ config.PROMETHEUS_URL # None
    /\ IF ListResult(r).status = "error" /\ Len(requests[i]) < 2
       THEN /\ requests' = [requests EXCEPT ![i] = Append(@, ListRequest(config))]
            /\ UNCHANGED <<resp, result, clients, pc>>
       ELSE /\ resp' = [resp EXCEPT ![i] = r]
            /\ result' = [result EXCEPT ![i] = ListResult(r)]
            /\ clients' = clients \ {i}
            /\ pc' = [pc EXCEPT ![i] = "returned"]
            /\ UNCHANGED requests
    /\ UNCHANGED <<config, clock, op, args, locals, fault, clockReads>>

\* Lines 20-33: the GET returns `r`; the client is closed, the result is built.
ListRespond(i, r) ==
    /\ pc[i] = "awaiting" /\ op[i] = "list"
    /\ config.PROMETHEUS_URL # None
    /\ resp' = [resp EXCEPT ![i] = r]
    /\ result' = [result EXCEPT ![i] = ListResult(r)]
    /\ clients' = clients \ {i}
    /\ pc' = [pc EXCEPT ![i] = "returned"]
    /\ UNCHANGED <<config, clock, op, args, locals, requests, fault, clockReads>>

\* Lines 19-20: the GET raises; the await is outside the try of line 21, so
\* the client is closed and the exception leaves the function.
ListRaise(i) ==
    /\ pc[i] = "awaiting" /\ op[i] = "list"
    /\ fault' = [fault EXCEPT ![i] = PyStr(RequestError(config.PROMETHEUS_URL))]
    /\ clients' = clients \ {i}
    /\ pc' = [pc EXCEPT ![i] = "raised"]
    /\ UNCHANGED <<config, clock, op, args, locals, requests, resp, result, clockReads>>

(***************************************************************************)
(* generate_promql_prompt and explain_promql_prompt: no await in the body. *)
(***************************************************************************)
\* Lines 44-57.
CallGenerate(i, user_intent, available_metrics, extra_context) ==
    /\ pc[i] = "idle"
    /\ op' = [op EXCEPT ![i] = "generate"]
    /\ args' = [args EXCEPT ![i] = [user_intent |-> user_intent,
                                    available_metrics |-> available_metrics,
                                    extra_context |-> extra_context]]
    /\ result' = [result EXCEPT ![i] =
                    GenerateResult(user_intent, available_metrics, extra_context)]
    /\ pc' = [pc EXCEPT ![i] = "returned"]
    /\ UNCHANGED <<config, clock, locals, requests, resp, fault, clients, clockReads>>

\* Lines 69-77.
CallExplain(i, promql_query, explanation_request) ==
    /\ pc[i] = "idle"
    /\ op' = [op EXCEPT ![i] = "explain"]
    /\ args' = [args EXCEPT ![i] = [promql_query |-> promql_query,
                                    explanation_request |-> explanation_request]]
    /\ result' = [result EXCEPT ![i] = ExplainResult(promql_query, explanation_request)]
    /\ pc' = [pc EXCEPT ![i] = "returned"]
    /\ UNCHANGED <<config, clock, locals, requests, resp, fault, clients, clockReads>>

(***************************************************************************)
(* create_grafana_panel.                                                   *)
(***************************************************************************)
\* dashboard_title as a module-level name: the one the latest call in flight
\* assigned.
DashboardTitleOf_Shared(i) ==
    LET inflight == {j \in Inv : pc[j] = "awaiting" /\ op[j] = "create"}
        last == CHOOSE j \in inflight : \A k \in inflight : k <= j
    IN locals[last].dashboard_title

\* dashboard_title composed again, from a second reading of the clock, when
\* the link is built.
DashboardTitleOf_Recomposed(i) == DashboardTitle(args[i].title, Strftime(clock))

\* The dashboard_title an invocation holds across its await (line 86).
DashboardTitleOf(i) == locals[i].dashboard_title

\* Lines 84-114, up to the await: the clock is read, the payload is built,
\* the client is opened and the POST is issued.
CallCreate(i, title, promql, panel_type) ==
    /\ pc[i] = "idle"
    /\ LET now_str == Strftime(clock)
           dashboard_title == DashboardTitle(title, now_str)
           payload == Payload(title, promql, panel_type, dashboard_title)
       IN /\ locals' = [locals EXCEPT ![i] = [now |-> clock,
                                              now_str |-> now_str,
                                              dashboard_title |-> dashboard_title]]
          /\ requests' = [requests EXCEPT ![i] = Append(@, CreateRequest(config, payload))]
    /\ op' = [op EXCEPT ![i] = "create"]
    /\ args' = [args EXCEPT ![i] = [title |-> title, promql |-> promql,
                                    panel_type |-> panel_type]]
    /\ clockReads' = [clockReads EXCEPT ![i] = @ + 1]
    /\ clients' = clients \cup {i}
    /\ pc' = [pc EXCEPT ![i] = "awaiting"]
    /\ UNCHANGED <<config, clock, resp, result, fault>>

\* Lines 114-130: the POST returns `r`; the client is closed, the result is built.
CreateRespond(i, r) ==
    /\ pc[i] = "awaiting" /\ op[i] = "create"
    /\ config.GRAFANA_URL # None
    /\ resp' = [resp EXCEPT ![i] = r]
    /\ result' = [result EXCEPT ![i] = CreateResult(config, r, DashboardTitleOf(i))]
    /\ clients' = clients \ {i}
    /\ pc' = [pc EXCEPT ![i] = "returned"]
    /\ UNCHANGED <<config, clock, op, args, locals, requests, fault, clockReads>>

\* Lines 113-114: the POST raises; the await is outside the try of line 115.
CreateRaise(i) ==
    /\ pc[i] = "awaiting" /\ op[i] = "create"
    /\ fault' = [fault EXCEPT ![i] = PyStr(RequestError(config.GRAFANA_URL))]
    /\ clients' = clients \ {i}
    /\ pc' = [pc EXCEPT ![i] = "raised"]
    /\ UNCHANGED <<config, clock, op, args, locals, requests, resp, result, clockReads>>

(***************************************************************************)
(* The environment: the transport hands the outcome to the caller and the  *)
(* coroutine is gone; the wall clock moves.                                *)
(***************************************************************************)
Forget(i) ==
    /\ pc[i] \in {"returned", "raised"}
    /\ pc' = [pc EXCEPT ![i] = "idle"]
    /\ op' = [op EXCEPT ![i] = "none"]
    /\ args' = [args EXCEPT ![i] = None]
    /\ locals' = [locals EXCEPT ![i] = None]
    /\ requests' = [requests EXCEPT ![i] = <<>>]
    /\ resp' = [resp EXCEPT ![i] = None]
    /\ result' = [result EXCEPT ![i] = None]
    /\ fault' = [fault EXCEPT ![i] = None]
    /\ clockReads' = [clockReads EXCEPT ![i] = 0]
    /\ UNCHANGED <<config, clock, clients>>

Tick ==
    /\ clock + 1 \in ClockWindow
    /\ clock' = clock + 1
    /\ UNCHANGED <<config, pc, op, args, locals, requests, resp, result, fault,
                   clients, clockReads>>

\* datetime.now() is the local wall clock: it can be set back.
SetBack ==
    /\ clock - 1 \in ClockWindow
    /\ clock' = clock - 1
    /\ UNCHANGED <<config, pc, op, args, locals, requests, resp, result, fault,
                   clients, clockReads>>

\* Several invocations in flight at once.
Next ==
    \/ \E i \in Inv : CallList(i)
    \/ \E i \in Inv, r \in FewMetricsResponses : ListRespond(i, r)
    \/ \E i \in Inv : ListRaise(i)
    \/ \E i \in Inv, u \in {<<"cpu usage">>}, m \in FewMetricLists, e \in FewExtraContexts :
          CallGenerate(i, u, m, e)
    \/ \E i \in Inv : CallExplain(i, <<"up">>, DefaultExplanationRequest)
    \/ \E i \in Inv, t \in FewTitles : CallCreate(i, t, <<"up">>, <<"timeseries">>)
    \/ \E i \in Inv, r \in FewDashboardResponses : CreateRespond(i, r)
    \/ \E i \in Inv : CreateRaise(i)
    \/ \E i \in Inv : Forget(i)
    \/ Tick
    \/ SetBack

Spec == Init /\ [][Next]_vars

\* One invocation at a time, over all the inputs.
NextSeq ==
    \/ CallList(1)
    \/ \E r \in MetricsResponses : ListRespond(1, r)
    \/ ListRaise(1)
    \/ \E u \in UserIntents, m \in MetricLists, e \in ExtraContexts :
          CallGenerate(1, u, m, e)
    \/ \E q \in Promqls, x \in ExplanationRequests : CallExplain(1, q, x)
    \/ \E t \in Titles, q \in Promqls, p \in PanelTypes : CallCreate(1, t, q, p)
    \/ \E r \in DashboardResponses : CreateRespond(1, r)
    \/ CreateRaise(1)
    \/ Forget(1)
    \/ Tick
    \/ SetBack

SpecSeq == Init /\ [][NextSeq]_vars

(***************************************************************************)
(* Vocabulary of the properties.                                           *)
(***************************************************************************)
HasPrefix(s, p) == Len(s) >= Len(p) /\ SubSeq(s, 1, Len(p)) = p
HasSuffix(s, p) == Len(s) >= Len(p) /\ SubSeq(s, Len(s) - Len(p) + 1, Len(s)) = p
Contains(s, p) ==
    \E k \in 0..(Len(s) - Len(p)) : SubSeq(s, k + 1, k + Len(p)) = p

RECURSIVE Lines(_)
\* The lines of a text: its pieces between the "\n".
Lines(s) ==
    IF \A k \in 1..Len(s) : s[k] # "\n" THEN <<s>>
    ELSE LET k == CHOOSE n \in 1..Len(s) :
                    s[n] = "\n" /\ \A m \in 1..(n - 1) : s[m] # "\n"
         IN <<SubSeq(s, 1, k - 1)>> \o Lines(SubSeq(s, k + 1, Len(s)))

\* `out` is `orig` with every space replaced by a hyphen.
Hyphenated(orig, out) ==
    /\ Len(out) = Len(orig)
    /\ \A k \in 1..Len(orig) : out[k] = IF orig[k] = " " THEN "-" ELSE orig[k]

Started(i, o) == op[i] = o /\ pc[i] # "idle"
Returned(i, o) == op[i] = o /\ pc[i] = "returned"

\* The envelope has exactly the fields of an error: status and message.
ErrorEnvelope(e) == DOMAIN e = {"status", "message"} /\ e.status = "error"

(***************************************************************************)
(* C1.                                                                     *)
(***************************************************************************)
\* C1: no invocation ends in an unhandled fault: with both backends
\* configured, an invocation that is over has returned an envelope, and no
\* exception has left the tool function when its HTTP call raised.
C1_NoUnhandledFault ==
    \A i \in Inv :
        config.PROMETHEUS_URL # None /\ config.GRAFANA_URL # None
        /\ pc[i] \notin {"idle", "awaiting"} =>
            /\ pc[i] = "returned"
            /\ fault[i] = None
            /\ result[i].status \in {"ok", "error"}

(***************************************************************************)
(* C2.                                                                     *)
(***************************************************************************)
\* The response carries a non-empty uid.
HasUid(r) ==
    /\ r.body.t = "dict"
    /\ HasKey(r.body, "uid")
    /\ Get(r.body, "uid", None).t = "str"
    /\ Len(Get(r.body, "uid", None).s) > 0

\* C2: create_grafana_panel returns status "ok" exactly when the response has
\* status 200 and a non-empty uid; the url is then <GRAFANA_URL>/d/<uid>/
\* followed by the submitted dashboard title with spaces as hyphens; every
\* other response gives status "error" and no url field.
C2_OkIffStatus200AndUid ==
    \A i \in Inv :
        Returned(i, "create") =>
            LET good == resp[i].status_code = 200 /\ HasUid(resp[i])
                submitted == requests[i][1].json.dashboard.title
                head == config.GRAFANA_URL.s \o <<"/d/">>
                        \o Get(resp[i].body, "uid", None).s \o <<"/">>
            IN /\ result[i].status = "ok" <=> good
               /\ good => /\ HasPrefix(result[i].url, head)
                          /\ Hyphenated(submitted,
                                        SubSeq(result[i].url, Len(head) + 1,
                                               Len(result[i].url)))
               /\ ~good => ErrorEnvelope(result[i])

\* A dashboard whose title holds spaces was created.
C2_Witness ==
    \E i \in Inv :
        /\ Returned(i, "create")
        /\ result[i].status = "ok"
        /\ \E k \in 1..Len(args[i].title) : args[i].title[k] = " "
        /\ resp[i].body.t = "dict"

(***************************************************************************)
(* C3.                                                                     *)
(***************************************************************************)
\* The body parsed as a JSON object whose status field is "success".
Success(r) ==
    /\ r.body.t = "dict"
    /\ HasKey(r.body, "status")
    /\ Get(r.body, "status", None) = PyStr(<<"success">>)

\* The names of the data field; none when the field is absent.
DataNames(r) ==
    IF HasKey(r.body, "data") /\ Get(r.body, "data", None).t = "list"
    THEN Get(r.body, "data", None).items
    ELSE <<>>

\* The envelope lists `names` and its message reports their count and the
\* first five of them, no others.
ReportsMetrics(e, names) ==
    /\ DOMAIN e = {"status", "metrics", "message"}
    /\ e.status = "ok"
    /\ e.metrics.t = "list" /\ e.metrics.items = names
    /\ Contains(e.message, Decimal(Len(names)))
    /\ \A k \in 1..Len(names) :
          Contains(e.message, <<"'">> \o names[k].s \o <<"'">>) <=> k <= 5
    /\ HasSuffix(e.message, <<"]", "...">>)

\* C3 as stated: whenever the body parses and its status is "success", the
\* result is "ok" with the names of the data field and a message that reports
\* their count and the first five, whatever the data field is.
C3_SuccessAlwaysOk ==
    \A i \in Inv :
        Returned(i, "list") /\ Success(resp[i]) =>
            ReportsMetrics(result[i], DataNames(resp[i]))

\* C3 amended: that holds when the data field is absent or a list of any
\* length; a null data field gives an "error" envelope with the
\* enumeration-failed message.
C3_SuccessOkUnlessNullData ==
    \A i \in Inv :
        Returned(i, "list") /\ Success(resp[i]) =>
            IF HasKey(resp[i].body, "data") /\ Get(resp[i].body, "data", None) = None
            THEN /\ ErrorEnvelope(result[i])
                 /\ HasPrefix(result[i].message, <<"metric enumeration failed: ">>)
            ELSE ReportsMetrics(result[i], DataNames(resp[i]))

\* Six metrics came back: the message shows five of them.
C3_Witness ==
    \E i \in Inv :
        /\ Returned(i, "list") /\ Success(resp[i])
        /\ Len(DataNames(resp[i])) = 6
        /\ result[i].status = "ok"

(***************************************************************************)
(* C4.                                                                     *)
(***************************************************************************)
\* The try block raises: the body is not JSON, is JSON but no object, or
\* reports success with a null data field.
BuildRaises(r) ==
    \/ r.body.t = "invalid"
    \/ r.body.t \in {"list", "none", "str"}
    \/ Success(r) /\ HasKey(r.body, "data") /\ Get(r.body, "data", None) = None

\* C4: a body that parses to an object whose status is not "success" gives
\* {status "error", message: the body as text}, without metrics; a body that
\* does not parse, or an exception while the result is built, gives the
\* enumeration-failed prefix followed by the cause; the request is not
\* repeated in either case.
C4_TwoFailureKinds ==
    \A i \in Inv :
        Returned(i, "list") =>
            /\ resp[i].body.t = "dict" /\ ~Success(resp[i]) =>
                  /\ ErrorEnvelope(result[i])
                  /\ result[i].message = Repr(resp[i].body)
            /\ BuildRaises(resp[i]) =>
                  /\ ErrorEnvelope(result[i])
                  /\ HasPrefix(result[i].message, <<"metric enumeration failed: ">>)
                  /\ Len(result[i].message) > 1
            /\ result[i].status = "error" => Len(requests[i]) = 1

\* Scenario 2 of the specification: {"status":"error","error":"bad request"}.
C4_Witness ==
    \E i \in Inv :
        /\ Returned(i, "list")
        /\ resp[i].body.t = "dict" /\ ~Success(resp[i])
        /\ result[i].message =
              <<"{", "'", "status", "'", ": ", "'", "error", "'", ", ",
                "'", "error", "'", ": ", "'", "bad request", "'", "}">>

(***************************************************************************)
(* C5.                                                                     *)
(***************************************************************************)
\* The dashboard title invocation i submitted to the backend.
Submitted(i) == requests[i][1].json.dashboard.title

\* C5 as stated: two invocations of create_grafana_panel with the same
\* title, promql and panel_type submit different dashboard titles.
C5_TitlesAlwaysDiffer ==
    \A i, j \in Inv :
        i # j /\ Started(i, "create") /\ Started(j, "create") /\ args[i] = args[j]
            => Submitted(i) # Submitted(j)

\* C5 amended: each submitted title is <title>_<the 14-digit local timestamp
\* of the call>, and two invocations with the same arguments submit different
\* titles exactly when the clock showed different seconds at their calls.
C5_TitlesDifferIffSecondsDiffer ==
    \A i, j \in Inv :
        Started(i, "create") /\ Started(j, "create") =>
            /\ Submitted(i) = args[i].title \o <<"_">> \o Strftime(locals[i].now)
            /\ Len(Submitted(i)) = Len(args[i].title) + 15
            /\ args[i] = args[j] =>
                  (Submitted(i) # Submitted(j) <=> locals[i].now # locals[j].now)

\* Two calls with the same arguments, one second apart.
C5_Witness ==
    \E i, j \in Inv :
        /\ Started(i, "create") /\ Started(j, "create")
        /\ args[i] = args[j]
        /\ locals[i].now # locals[j].now
        /\ Submitted(i) # Submitted(j)

(***************************************************************************)
(* C6.                                                                     *)
(***************************************************************************)
\* C6: an invocation issues at most one HTTP request: one GET for
\* list_prometheus_metrics, one POST for create_grafana_panel, whatever the
\* outcome, and none for the two prompt tools, which never wait.
C6_AtMostOneRequest ==
    \A i \in Inv :
        /\ Len(requests[i]) <= 1
        /\ Started(i, "list") => Len(requests[i]) = 1 /\ requests[i][1].method = "GET"
        /\ Started(i, "create") => Len(requests[i]) = 1 /\ requests[i][1].method = "POST"
        /\ Started(i, "generate") \/ Started(i, "explain") =>
              Len(requests[i]) = 0 /\ pc[i] = "returned"

\* A failed enumeration, one request later, beside a prompt tool that is done.
C6_Witness ==
    \E i, j \in Inv :
        /\ Returned(i, "list") /\ result[i].status = "error"
        /\ Len(requests[i]) = 1
        /\ Returned(j, "generate")

(***************************************************************************)
(* C7.                                                                     *)
(***************************************************************************)
\* C7: generate_promql_prompt always returns status "ok", and two calls with
\* the same arguments return the same envelope, whatever else ran and
\* whatever the clock showed.
C7_GenerateIsPure ==
    \A i \in Inv :
        Started(i, "generate") =>
            /\ pc[i] = "returned"
            /\ result[i].status = "ok"
            /\ \A j \in Inv :
                  Started(j, "generate") /\ args[j] = args[i] => result[j] = result[i]

\* Two calls with the same arguments (available_metrics omitted) have
\* returned, and the clock has moved since the run began.
C7_Witness ==
    \E i, j \in Inv :
        /\ i # j
        /\ Returned(i, "generate") /\ Returned(j, "generate")
        /\ args[i] = args[j]
        /\ args[i].available_metrics = None
        /\ clock # 58

(***************************************************************************)
(* C8.                                                                     *)
(***************************************************************************)
\* The lines of the metric list: the names, or the placeholder when the list
\* is empty or omitted.
MetricLines(available_metrics) ==
    IF available_metrics = None \/ available_metrics.items = <<>>
    THEN <<NoMetricsPlaceholder>>
    ELSE [k \in 1..Len(available_metrics.items) |-> available_metrics.items[k].s]

\* The instruction that ends the prompt.
InstructionLines == Lines(PromptInstruction)

LineCount(user_intent, available_metrics, extra_context) ==
    Len(Lines(GeneratePrompt(user_intent, available_metrics, extra_context)))

\* C8 as stated: the lines of the prompt are the user_intent, the metric
\* names (or the placeholder), the extra-context line only when extra_context
\* is not empty, and the instruction; with an empty extra_context the prompt
\* is one line shorter than with a one-line extra_context.
C8_ExtraLineOmitted ==
    \A i \in Inv :
        Returned(i, "generate") =>
            LET a == args[i] IN
            /\ Lines(result[i].prompt) =
                  << UserRequestLabel \o a.user_intent, MetricsHeading >>
                  \o MetricLines(a.available_metrics)
                  \o (IF a.extra_context = <<>> THEN <<>>
                      ELSE Lines(ExtraContextLabel \o a.extra_context))
                  \o InstructionLines
            /\ a.extra_context = <<>> =>
                  Len(Lines(result[i].prompt)) =
                      LineCount(a.user_intent, a.available_metrics, <<"job=api">>) - 1

\* C8 amended: with an empty extra_context the extra-context line is an empty
\* line, so the prompt has as many lines as with a one-line extra_context.
C8_ExtraLineLeftEmpty ==
    \A i \in Inv :
        Returned(i, "generate") =>
            LET a == args[i] IN
            /\ Lines(result[i].prompt) =
                  << UserRequestLabel \o a.user_intent, MetricsHeading >>
                  \o MetricLines(a.available_metrics)
                  \o (IF a.extra_context = <<>> THEN << <<>> >>
                      ELSE Lines(ExtraContextLabel \o a.extra_context))
                  \o InstructionLines
            /\ a.extra_context = <<>> =>
                  Len(Lines(result[i].prompt)) =
                      LineCount(a.user_intent, a.available_metrics, <<"job=api">>)

\* A prompt for an empty list of metrics and an empty extra_context.
C8_Witness ==
    \E i \in Inv :
        /\ Returned(i, "generate")
        /\ args[i].extra_context = <<>>
        /\ args[i].available_metrics = PyList(<<>>)

(***************************************************************************)
(* C9.                                                                     *)
(***************************************************************************)
\* Everything an invocation holds.
Slot(i) ==
    <<pc[i], op[i], args[i], locals[i], requests[i], resp[i], result[i], fault[i],
      clockReads[i]>>

\* The clock reading of an invocation.
Reading(i) == IF op[i] = "create" THEN locals[i].now ELSE 0

\* Invocations with the same tool, arguments and clock reading issued the same
\* request, and return the same envelope for the same response; a client is
\* open exactly while its invocation waits.
C9_OwnInputsOnly ==
    /\ \A i, j \in Inv :
          Started(i, op[j]) /\ Started(j, op[i]) /\ args[i] = args[j]
          /\ Reading(i) = Reading(j) =>
              /\ requests[i] = requests[j]
              /\ pc[i] = "returned" /\ pc[j] = "returned" /\ resp[i] = resp[j]
                    => result[i] = result[j]
    /\ clients = {i \in Inv : pc[i] = "awaiting"}

\* A step changes what at most one invocation holds, and never the
\* configuration.
C9_OneSlotPerStep ==
    /\ config' = config
    /\ \A i, j \in Inv : i # j /\ Slot(i)' # Slot(i) => Slot(j)' = Slot(j)

\* C9: under any interleaving an invocation's request and result depend only
\* on its own arguments, its own response, the clock and the configuration;
\* no step of one invocation touches another, and none changes the
\* configuration.
C9_Independent == []C9_OwnInputsOnly /\ [][C9_OneSlotPerStep]_vars

\* Two invocations created the same dashboard, with the same reply.
C9_Witness ==
    \E i, j \in Inv :
        /\ i # j
        /\ Returned(i, "create") /\ Returned(j, "create")
        /\ args[i] = args[j] /\ Reading(i) = Reading(j) /\ resp[i] = resp[j]
        /\ result[i].status = "ok"

(***************************************************************************)
(* C10.                                                                    *)
(***************************************************************************)
\* C10: create_grafana_panel reads the clock once, before the POST: the
\* submitted dashboard title, the payload's message and the returned url all
\* end in the timestamp of that reading, also when the clock has moved since;
\* the panel is titled with the user's title alone.
C10_OneTimestamp ==
    \A i \in Inv :
        Started(i, "create") =>
            LET stamp == Strftime(locals[i].now)
                json == requests[i][1].json
            IN /\ clockReads[i] = 1
               /\ Len(stamp) = 14
               /\ json.dashboard.title = args[i].title \o <<"_">> \o stamp
               /\ json.message = <<"Created by MCP tool: ">> \o json.dashboard.title
               /\ json.dashboard.panels[1].title = args[i].title
               /\ pc[i] = "returned" /\ result[i].status = "ok" =>
                     /\ HasSuffix(result[i].url, stamp)
                     /\ Hyphenated(json.dashboard.title,
                                   SubSeq(result[i].url,
                                          Len(result[i].url) - Len(json.dashboard.title) + 1,
                                          Len(result[i].url)))

\* A dashboard was created while the clock moved on.
C10_Witness ==
    \E i \in Inv :
        /\ Returned(i, "create")
        /\ result[i].status = "ok"
        /\ clock # locals[i].now

=============================================================================
